---- MODULE Spec2Model ----
(***************************************************************************)
(* CloudPulse backend: startup chain (Vault, AWS, GitHub, HTTP listener)   *)
(* and the three JSON API handlers.  The repository holds two revisions of *)
(* the backend: src/backend/main.go ("Backend v2") and src/unnamed/part_004*)
(* ("Backend v3 (Corrected)").  The variable `build` says which one runs.  *)
(***************************************************************************)
EXTENDS Integers, Sequences, FiniteSets, TLC

\* ---------------------------------------------------------------- bounds
MaxPts    == 2   \* longest Values / Timestamps list of one series
MaxUsers  == 2   \* longest collaborator list returned by the API
MaxErrLen == 2   \* longest remote error text, in characters

\* ------------------------------------------------------------- vocabulary
Builds == {"v2", "v3"}

EnvVars == {"VAULT_ADDR", "VAULT_TOKEN", "GITHUB_OWNER", "GITHUB_REPO",
            "EC2_INSTANCE_ID_OVERRIDE"}

\* the value a variable has when it is set; "" is unset or empty (os.Getenv)
EnvValue(n) ==
    CASE n = "VAULT_ADDR"               -> "http://127.0.0.1:8200"
      [] n = "VAULT_TOKEN"              -> "s.root"
      [] n = "GITHUB_OWNER"             -> "Asit0007"
      [] n = "GITHUB_REPO"              -> "CloudPulse"
      [] n = "EC2_INSTANCE_ID_OVERRIDE" -> "i-override"

EnvValues == {""} \cup { EnvValue(n) : n \in EnvVars }

Environments == { e \in [EnvVars -> EnvValues] :
                    \A n \in EnvVars : e[n] \in {"", EnvValue(n)} }

Getenv(e, n) == e[n]

\* characters that matter for JSON text
Q  == "\""
BS == "\\"
NL == "\n"

\* pointers to strings (*string): nil or a value
NilPtr  == [nil |-> TRUE, v |-> "<nil>"]
Ptr(s)  == [nil |-> FALSE, v |-> s]

\* JSON values as json.Encoder writes them
JNull      == [t |-> "null",   v |-> <<>>]
JStr(s)    == [t |-> "str",    v |-> s]
JNum(n)    == [t |-> "num",    v |-> n]
JArray(xs) == [t |-> "array",  v |-> xs]
JObject(m) == [t |-> "object", v |-> m]

EmptyMap == [k \in {} |-> JNull]
MapPut(m, k, x) == [y \in (DOMAIN m) \cup {k} |-> IF y = k THEN x ELSE m[y]]

\* --------------------------------------------------------------- variables
VARIABLES
    build,        \* which revision of the backend runs
    env,          \* the process environment at start
    pc,           \* position of main
    vaultClient,  \* global vaultClient
    cwClient,     \* global cwClient (TRUE = non-nil)
    githubClient, \* global githubClient
    instanceID,   \* global instanceID
    githubOwner,  \* global githubOwner
    githubRepo,   \* global githubRepo
    metadata,     \* outcome of the instance-id metadata query of initAWS
    secretRead,   \* the reads of the secret store made by getSecret
    call,         \* the external API call made by the request being handled
    resp,         \* the response of the request being handled
    reqPath,      \* the URL path of the request being handled
    failedBefore, \* history: an earlier request of this process failed
    fe,           \* the dashboard page in the browser (script.js)
    rotated,      \* the stored secret was replaced after startup
    inflight,     \* the requests being handled at the same time, by slot
    secretCall    \* a call of getSecret: its arguments and what it returned

vars == <<build, env, pc, vaultClient, cwClient, githubClient, instanceID,
          githubOwner, githubRepo, metadata, secretRead, call, resp,
          reqPath, failedBefore, fe, rotated, inflight, secretCall>>

\* the bookkeeping of requests
served == <<reqPath, failedBefore>>

globals == <<vaultClient, cwClient, githubClient, instanceID, githubOwner,
             githubRepo>>

NilVaultClient  == [init |-> FALSE, addr |-> "", token |-> ""]
NilGithubClient == [init |-> FALSE, token |-> ""]

NoMetadata == [queried |-> FALSE, outcome |-> "", body |-> ""]
NoSecretRead == [n |-> 0, outcome |-> "", value |-> ""]

NoErr  == [failed |-> FALSE, text |-> <<>>]
Err(t) == [failed |-> TRUE,  text |-> t]

NoCall == [api |-> "", n |-> 0, dim |-> "", owner |-> "", repo |-> "",
           perPage |-> 0, window |-> 0, period |-> 0, token |-> "",
           err |-> NoErr, series |-> <<>>, users |-> <<>>, nextPage |-> 0]

NoBody == [kind |-> "none", text |-> <<>>, json |-> JNull]
TextBody(t) == [kind |-> "text", text |-> t, json |-> JNull]
JsonBody(j) == [kind |-> "json", text |-> <<>>, json |-> j]

NoHeader == [ctype |-> "", acao |-> "", xcto |-> ""]
NoResp == [route |-> "", status |-> 0, header |-> NoHeader, body |-> NoBody,
           aborted |-> FALSE]

\* a URL path as its segments: "/" is <<>>, "/api/x" is <<"api", "x">>, a
\* trailing slash is a last segment ""
NoPath == <<"(none)">>

\* the browser before the page is loaded
NoPage == [ids |-> {}, pc |-> "off", dom |-> << >>, fetch |-> << >>,
           net |-> << >>]

BackendInit ==
    /\ build \in Builds
    /\ env \in Environments
    /\ pc = "initVault"
    /\ vaultClient = NilVaultClient
    /\ cwClient = FALSE
    /\ githubClient = NilGithubClient
    /\ instanceID = ""
    /\ githubOwner = ""
    /\ githubRepo = ""
    /\ metadata = NoMetadata
    /\ secretRead = NoSecretRead
    /\ call = NoCall
    /\ resp = NoResp
    /\ reqPath = NoPath
    /\ failedBefore = FALSE
    /\ rotated = FALSE

\* getSecret has not been called
NoSecretCall == [done |-> FALSE, vc |-> NilVaultClient,
                 store |-> [answers |-> FALSE, content |-> "absent"],
                 path |-> <<>>, key |-> "",
                 result |-> [value |-> "", failed |-> FALSE, why |-> "",
                             reads |-> 0]]

\* how many requests are handled at the same time
MaxInFlight == 2
Slots == 1..MaxInFlight

\* a goroutine of the server that handles no request
IdleSlot == [route |-> "", stage |-> "idle", out |-> [err |-> NoErr],
             status |-> 0, header |-> NoHeader, body |-> NoBody,
             aborted |-> FALSE, call |-> NoCall]

Init ==
    /\ BackendInit
    /\ fe = NoPage
    /\ inflight = [i \in Slots |-> IdleSlot]
    /\ secretCall = NoSecretCall

\* ------------------------------------------------------- strings as tokens
\* A path is a sequence of tokens; the token "/" is the separator.
IndexOf(s, c) ==
    IF \E i \in 1..Len(s) : s[i] = c
    THEN CHOOSE i \in 1..Len(s) : s[i] = c /\ \A j \in 1..(i-1) : s[j] # c
    ELSE 0

\* strings.Split(s, sep): all segments
RECURSIVE Split(_, _)
Split(s, sep) ==
    LET i == IndexOf(s, sep) IN
    IF i = 0 THEN <<s>>
    ELSE <<SubSeq(s, 1, i-1)>> \o Split(SubSeq(s, i+1, Len(s)), sep)

\* strings.SplitN(s, sep, 2): at most two segments, cut at the first sep
SplitN2(s, sep) ==
    LET i == IndexOf(s, sep) IN
    IF i = 0 THEN <<s>>
    ELSE <<SubSeq(s, 1, i-1), SubSeq(s, i+1, Len(s))>>

\* strings.Join(segs, sep)
RECURSIVE Join(_, _)
Join(segs, sep) ==
    IF Len(segs) = 0 THEN <<>>
    ELSE IF Len(segs) = 1 THEN segs[1]
    ELSE segs[1] \o <<sep>> \o Join(Tail(segs), sep)

\* ------------------------------------------------------------ secret store
\* What the KVv2 store does when asked: it answers or not, and what it holds
\* at kv/cloudpulse.
StoreContents == {"absent", "nildata", "nokey", "nonstring", "string"}
StoreStates == [answers : BOOLEAN, content : StoreContents]

GithubTokenValue == "ghp_token"

NilSecret == [nil |-> TRUE, dataNil |-> TRUE, data |-> EmptyMap]
Secret(m) == [nil |-> FALSE, dataNil |-> FALSE, data |-> m]

\* vaultClient.KVv2(mount).Get(ctx, path)
KVGet(store, mount, path) ==
    IF ~store.answers THEN [failed |-> TRUE, secret |-> NilSecret]
    ELSE IF mount # <<"kv">> \/ path # <<"cloudpulse">>
              \/ store.content = "absent"
    THEN [failed |-> TRUE, secret |-> NilSecret]
    ELSE CASE store.content = "nildata" ->
                [failed |-> FALSE,
                 secret |-> [nil |-> FALSE, dataNil |-> TRUE, data |-> EmptyMap]]
           [] store.content = "nokey" ->
                [failed |-> FALSE,
                 secret |-> Secret(MapPut(EmptyMap, "other_key", JStr("x")))]
           [] store.content = "nonstring" ->
                [failed |-> FALSE,
                 secret |-> Secret(MapPut(EmptyMap, "github_token", JNum(42)))]
           [] store.content = "string" ->
                [failed |-> FALSE,
                 secret |-> Secret(MapPut(EmptyMap, "github_token",
                                          JStr(GithubTokenValue)))]

\* fault variant: a value that is not a string is formatted
ReadSecret_anyType(store, mount, path, key) ==
    LET r == KVGet(store, mount, path) IN
    IF r.failed
    THEN [value |-> "", failed |-> TRUE, why |-> "get", reads |-> 1]
    ELSE IF r.secret.nil \/ r.secret.dataNil
    THEN [value |-> "", failed |-> TRUE, why |-> "nodata", reads |-> 1]
    ELSE IF key \notin DOMAIN r.secret.data
    THEN [value |-> "", failed |-> TRUE, why |-> "key", reads |-> 1]
    ELSE [value |-> IF r.secret.data[key].t = "str"
                    THEN r.secret.data[key].v ELSE "42",
          failed |-> FALSE, why |-> "", reads |-> 1]

\* the tail of getSecret, after mount and path are known
ReadSecret(store, mount, path, key) ==
    LET r == KVGet(store, mount, path) IN
    IF r.failed
    THEN [value |-> "", failed |-> TRUE, why |-> "get", reads |-> 1]
    ELSE IF r.secret.nil \/ r.secret.dataNil
    THEN [value |-> "", failed |-> TRUE, why |-> "nodata", reads |-> 1]
    ELSE IF ~(key \in DOMAIN r.secret.data /\ r.secret.data[key].t = "str")
    THEN [value |-> "", failed |-> TRUE, why |-> "key", reads |-> 1]
    ELSE [value |-> r.secret.data[key].v, failed |-> FALSE, why |-> "",
          reads |-> 1]

\* getSecret of src/backend/main.go
getSecret_v2(vc, store, secretPath, key) ==
    IF ~vc.init
    THEN [value |-> "", failed |-> TRUE, why |-> "client", reads |-> 0]
    ELSE LET segs == Split(secretPath, "/") IN
         ReadSecret(store, segs[1], Join(Tail(segs), "/"), key)

\* getSecret of src/unnamed/part_004
getSecret_v3(vc, store, secretPath, key) ==
    IF ~vc.init
    THEN [value |-> "", failed |-> TRUE, why |-> "client", reads |-> 0]
    ELSE LET parts == SplitN2(secretPath, "/") IN
         IF Len(parts) # 2
         THEN [value |-> "", failed |-> TRUE, why |-> "path", reads |-> 0]
         ELSE ReadSecret(store, parts[1], parts[2], key)

getSecret(b, vc, store, secretPath, key) ==
    IF b = "v2" THEN getSecret_v2(vc, store, secretPath, key)
    ELSE getSecret_v3(vc, store, secretPath, key)

\* the path initGitHub reads
SecretPath == <<"kv", "/", "cloudpulse">>

\* ------------------------------------------------- getSecret on any input
\* the secret paths getSecret is called with: the one of initGitHub, and
\* paths with no, an empty, or more than one segment around the slash
SecretPaths ==
    { SecretPath, <<>>, <<"kv">>, <<"kv", "/">>, <<"/", "cloudpulse">>,
      <<"kv", "/", "cloudpulse", "/", "x">>, <<"kv", "/", "/", "cloudpulse">>,
      <<"secret", "/", "cloudpulse">> }

SecretKeys == {"github_token", "other_key", "missing"}

\* the secret client: nil, or built by initVault
VaultClients ==
    { NilVaultClient,
      [init |-> TRUE, addr |-> "https://127.0.0.1:8200", token |-> "s.token"] }

\* one call of getSecret
GetSecretCall ==
    /\ ~secretCall.done
    /\ \E vc \in VaultClients, store \in StoreStates, path \in SecretPaths,
          key \in SecretKeys :
         secretCall' = [done |-> TRUE, vc |-> vc, store |-> store,
                        path |-> path, key |-> key,
                        result |-> getSecret(build, vc, store, path, key)]
    /\ UNCHANGED <<build, env, pc, globals, metadata, secretRead, call, resp,
                   served, fe, rotated, inflight>>

\* the caller drops the result
GetSecretReturn ==
    /\ secretCall.done
    /\ secretCall' = NoSecretCall
    /\ UNCHANGED <<build, env, pc, globals, metadata, secretRead, call, resp,
                   served, fe, rotated, inflight>>

NextGetSecret ==
    \/ GetSecretCall
    \/ GetSecretReturn

\* getSecret applied to every client, store, path and key
SpecGetSecret == Init /\ [][NextGetSecret]_vars

\* ----------------------------------------------------------------- startup
DefaultVaultAddr == "https://127.0.0.1:8200"

\* vault.DefaultConfig(): VAULT_ADDR when set, the library default otherwise
DefaultConfig(e) ==
    IF Getenv(e, "VAULT_ADDR") # "" THEN Getenv(e, "VAULT_ADDR")
    ELSE DefaultVaultAddr

\* fault variant: a missing VAULT_TOKEN is only logged
initVault_lenient(e, newClientOk) ==
    IF ~newClientOk
    THEN [client |-> NilVaultClient, failed |-> TRUE]
    ELSE [client |-> [init |-> TRUE, addr |-> DefaultConfig(e),
                      token |-> Getenv(e, "VAULT_TOKEN")],
          failed |-> FALSE]

\* initVault; newClientOk is whether vault.NewClient returned no error
initVault(e, newClientOk) ==
    IF ~newClientOk
    THEN [client |-> NilVaultClient, failed |-> TRUE]
    ELSE LET c == [init |-> TRUE, addr |-> DefaultConfig(e), token |-> ""] IN
         IF Getenv(e, "VAULT_TOKEN") = ""
         THEN [client |-> c, failed |-> TRUE]
         ELSE [client |-> [c EXCEPT !.token = Getenv(e, "VAULT_TOKEN")],
               failed |-> FALSE]

\* main, step 1: initVault, log.Fatalf on error
InitVault ==
    /\ pc = "initVault"
    /\ \E newClientOk \in BOOLEAN :
         LET r == initVault(env, newClientOk) IN
         /\ vaultClient' = r.client
         /\ pc' = IF r.failed THEN "exited" ELSE "initAWS"
    /\ UNCHANGED <<build, env, cwClient, githubClient, instanceID,
                   githubOwner, githubRepo, metadata, secretRead, call, resp>>
    /\ UNCHANGED <<served, fe, rotated, inflight, secretCall>>

MetadataInstanceID == "i-0abc"

\* the outcomes of the metadata query of each revision
MetadataOutcomes(b) ==
    IF b = "v2"
    THEN { [queried |-> TRUE, outcome |-> "error", body |-> ""],
           [queried |-> TRUE, outcome |-> "ok", body |-> MetadataInstanceID] }
    ELSE { [queried |-> TRUE, outcome |-> "error", body |-> ""],
           [queried |-> TRUE, outcome |-> "non200", body |-> ""],
           [queried |-> TRUE, outcome |-> "readfail", body |-> ""],
           [queried |-> TRUE, outcome |-> "ok", body |-> ""],
           [queried |-> TRUE, outcome |-> "ok", body |-> MetadataInstanceID] }

\* initAWS of src/backend/main.go
initAWS_v2(e, cfgOk, md) ==
    IF ~cfgOk
    THEN [cw |-> FALSE, id |-> "", md |-> NoMetadata, failed |-> TRUE]
    ELSE IF md.outcome # "ok"
    THEN [cw |-> TRUE, id |-> Getenv(e, "EC2_INSTANCE_ID_OVERRIDE"),
          md |-> md, failed |-> FALSE]
    ELSE [cw |-> TRUE, id |-> md.body, md |-> md, failed |-> FALSE]

\* fault variant: the override wins whenever it is set
initAWS_v3_overrideFirst(e, cfgOk, md) ==
    IF ~cfgOk
    THEN [cw |-> FALSE, id |-> "", md |-> NoMetadata, failed |-> TRUE]
    ELSE IF md.outcome = "readfail"
    THEN [cw |-> TRUE, id |-> "", md |-> md, failed |-> TRUE]
    ELSE IF md.outcome \in {"error", "non200"}
              \/ Getenv(e, "EC2_INSTANCE_ID_OVERRIDE") # ""
    THEN [cw |-> TRUE, id |-> Getenv(e, "EC2_INSTANCE_ID_OVERRIDE"),
          md |-> md, failed |-> FALSE]
    ELSE [cw |-> TRUE, id |-> md.body, md |-> md, failed |-> FALSE]

\* fault variant: a non-200 answer does not fall back to the override
initAWS_v3_noFallback(e, cfgOk, md) ==
    IF ~cfgOk
    THEN [cw |-> FALSE, id |-> "", md |-> NoMetadata, failed |-> TRUE]
    ELSE IF md.outcome = "error"
    THEN [cw |-> TRUE, id |-> Getenv(e, "EC2_INSTANCE_ID_OVERRIDE"),
          md |-> md, failed |-> FALSE]
    ELSE IF md.outcome = "non200"
    THEN [cw |-> TRUE, id |-> "", md |-> md, failed |-> FALSE]
    ELSE IF md.outcome = "readfail"
    THEN [cw |-> TRUE, id |-> "", md |-> md, failed |-> TRUE]
    ELSE [cw |-> TRUE, id |-> md.body, md |-> md, failed |-> FALSE]

\* initAWS of src/unnamed/part_004
initAWS_v3(e, cfgOk, md) ==
    IF ~cfgOk
    THEN [cw |-> FALSE, id |-> "", md |-> NoMetadata, failed |-> TRUE]
    ELSE IF md.outcome = "error"
    THEN [cw |-> TRUE, id |-> Getenv(e, "EC2_INSTANCE_ID_OVERRIDE"),
          md |-> md, failed |-> FALSE]
    ELSE IF md.outcome = "non200"
    THEN [cw |-> TRUE, id |-> Getenv(e, "EC2_INSTANCE_ID_OVERRIDE"),
          md |-> md, failed |-> FALSE]
    ELSE IF md.outcome = "readfail"
    THEN [cw |-> TRUE, id |-> "", md |-> md, failed |-> TRUE]
    ELSE [cw |-> TRUE, id |-> md.body, md |-> md, failed |-> FALSE]

initAWS(b, e, cfgOk, md) ==
    IF b = "v2" THEN initAWS_v2(e, cfgOk, md) ELSE initAWS_v3(e, cfgOk, md)

\* main, step 2: initAWS, log.Fatalf on error
InitAWS ==
    /\ pc = "initAWS"
    /\ \E cfgOk \in BOOLEAN, md \in MetadataOutcomes(build) :
         LET r == initAWS(build, env, cfgOk, md) IN
         /\ cwClient' = r.cw
         /\ instanceID' = r.id
         /\ metadata' = r.md
         /\ pc' = IF r.failed THEN "exited" ELSE "initGitHub"
    /\ UNCHANGED <<build, env, vaultClient, githubClient, githubOwner,
                   githubRepo, secretRead, call, resp>>
    /\ UNCHANGED <<served, fe, rotated, inflight, secretCall>>

\* fault variant: owner and repo are not tested
initGitHub_noEnvCheck(b, e, vc, store) ==
    LET s == getSecret(b, vc, store, SecretPath, "github_token") IN
    IF s.failed
    THEN [secret |-> s, owner |-> "", repo |-> "",
          client |-> NilGithubClient, failed |-> TRUE]
    ELSE [secret |-> s, owner |-> Getenv(e, "GITHUB_OWNER"),
          repo |-> Getenv(e, "GITHUB_REPO"),
          client |-> [init |-> TRUE, token |-> s.value], failed |-> FALSE]

\* fault variant: the getSecret error is ignored
initGitHub_degraded(b, e, vc, store) ==
    LET s == getSecret(b, vc, store, SecretPath, "github_token") IN
    IF Getenv(e, "GITHUB_OWNER") = "" \/ Getenv(e, "GITHUB_REPO") = ""
    THEN [secret |-> s, owner |-> Getenv(e, "GITHUB_OWNER"),
          repo |-> Getenv(e, "GITHUB_REPO"),
          client |-> NilGithubClient, failed |-> TRUE]
    ELSE [secret |-> s, owner |-> Getenv(e, "GITHUB_OWNER"),
          repo |-> Getenv(e, "GITHUB_REPO"),
          client |-> [init |-> TRUE, token |-> s.value], failed |-> FALSE]

\* initGitHub
initGitHub(b, e, vc, store) ==
    LET s == getSecret(b, vc, store, SecretPath, "github_token") IN
    IF s.failed
    THEN [secret |-> s, owner |-> "", repo |-> "",
          client |-> NilGithubClient, failed |-> TRUE]
    ELSE IF Getenv(e, "GITHUB_OWNER") = "" \/ Getenv(e, "GITHUB_REPO") = ""
    THEN [secret |-> s, owner |-> Getenv(e, "GITHUB_OWNER"),
          repo |-> Getenv(e, "GITHUB_REPO"),
          client |-> NilGithubClient, failed |-> TRUE]
    ELSE [secret |-> s, owner |-> Getenv(e, "GITHUB_OWNER"),
          repo |-> Getenv(e, "GITHUB_REPO"),
          client |-> [init |-> TRUE, token |-> s.value], failed |-> FALSE]

\* main, step 3: initGitHub, log.Fatalf on error
InitGitHub ==
    /\ pc = "initGitHub"
    /\ \E store \in StoreStates :
         LET r == initGitHub(build, env, vaultClient, store) IN
         /\ secretRead' = [n |-> secretRead.n + r.secret.reads,
                           outcome |-> IF r.secret.failed THEN r.secret.why
                                       ELSE "ok",
                           value |-> r.secret.value]
         /\ githubOwner' = r.owner
         /\ githubRepo' = r.repo
         /\ githubClient' = r.client
         /\ pc' = IF r.failed THEN "exited" ELSE "listen"
    /\ UNCHANGED <<build, env, vaultClient, cwClient, instanceID, metadata,
                   call, resp>>
    /\ UNCHANGED <<served, fe, rotated, inflight, secretCall>>

\* main, step 4: routes registered, http.ListenAndServe; log.Fatalf when the
\* listener cannot be bound
Listen ==
    /\ pc = "listen"
    /\ \E bound \in BOOLEAN :
         pc' = IF bound THEN "serving" ELSE "exited"
    /\ UNCHANGED <<build, env, globals, metadata, secretRead, call, resp>>
    /\ UNCHANGED <<served, fe, rotated, inflight, secretCall>>

\* ------------------------------------------------------------ HTTP layer
\* w.Header().Set("Content-Type", ...); w.Header().Set("Access-Control-...")
ApiHeader == [ctype |-> "application/json", acao |-> "*", xcto |-> ""]

\* fault variant: the status code is not written, so the answer is a 200
httpError_status200(h, text, code) ==
    [status |-> 200,
     header |-> [h EXCEPT !.ctype = "text/plain; charset=utf-8",
                          !.xcto = "nosniff"],
     body |-> TextBody(text \o <<NL>>),
     aborted |-> FALSE]

\* net/http's http.Error(w, text, code): it replaces Content-Type by
\* text/plain, sets X-Content-Type-Options, writes the status and the text
\* followed by a newline.  Other headers already set are kept.
httpError(h, text, code) ==
    [status |-> code,
     header |-> [h EXCEPT !.ctype = "text/plain; charset=utf-8",
                          !.xcto = "nosniff"],
     body |-> TextBody(text \o <<NL>>),
     aborted |-> FALSE]

\* json.NewEncoder(w).Encode(v) as the first write: status 200, headers as set
jsonEncode(h, j) ==
    [status |-> 200, header |-> h, body |-> JsonBody(j), aborted |-> FALSE]

\* a handler that panics: net/http recovers, nothing is written, the
\* connection is closed
handlerPanic ==
    [status |-> 0, header |-> NoHeader, body |-> NoBody, aborted |-> TRUE]

\* the literal `{"error": "<msg>"}` with msg pasted in as it is
ErrorLiteral(msg) == <<"{", Q, "error", Q, ":", " ", Q>> \o msg \o <<Q, "}">>

\* fmt.Sprintf(`{"error": "<prefix>%v"}`, err)
SprintfError(prefix, err) == ErrorLiteral(<<prefix>> \o err.text)

\* ---------------------------------------------------------------- routing
Ec2Route      == "/api/ec2-usage"
GithubRoute   == "/api/github-users"
FreeTierRoute == "/api/free-tier-usage"
ApiRoutes     == {Ec2Route, GithubRoute, FreeTierRoute}
RootPattern   == "/"

\* the patterns main registers, by the segments of their paths
PatternPath(pattern) ==
    CASE pattern = RootPattern   -> <<>>
      [] pattern = Ec2Route      -> <<"api", "ec2-usage">>
      [] pattern = GithubRoute   -> <<"api", "github-users">>
      [] pattern = FreeTierRoute -> <<"api", "free-tier-usage">>

\* the paths requests come with
RequestPaths ==
    { <<>>, <<"index.html">>, <<"script.js">>, <<"styles.css">>,
      <<"missing">>, <<"api">>, <<"api", "">>, <<"api", "other">>,
      <<"api", "ec2-usage">>, <<"api", "ec2-usage", "">>,
      <<"api", "ec2-usage", "x">>, <<"api", "github-users">>,
      <<"api", "github-users", "">>, <<"api", "free-tier-usage">>,
      <<"api", "free-tier-usage", "x">>, <<"API", "ec2-usage">>,
      <<"api", "", "ec2-usage">>, <<"", "api", "github-users">>,
      <<"api", ".", "free-tier-usage">>,
      <<"missing", "..", "api", "ec2-usage">> }

\* path.Clean on the segments: "" and "." are dropped, ".." drops the
\* segment before it
RECURSIVE CleanSegments(_, _)
CleanSegments(p, acc) ==
    IF Len(p) = 0 THEN acc
    ELSE IF Head(p) \in {"", "."} THEN CleanSegments(Tail(p), acc)
    ELSE IF Head(p) = ".."
    THEN CleanSegments(Tail(p),
            IF Len(acc) = 0 THEN acc ELSE SubSeq(acc, 1, Len(acc) - 1))
    ELSE CleanSegments(Tail(p), Append(acc, Head(p)))

\* net/http's cleanPath: path.Clean, a trailing slash is kept
cleanPath(p) ==
    LET c == CleanSegments(p, <<>>) IN
    IF Len(p) > 0 /\ p[Len(p)] = "" /\ Len(c) > 0 THEN Append(c, "") ELSE c

\* fault variant: the API patterns match every path below them
muxHandler_subtree(p) ==
    IF cleanPath(p) # p THEN "redirect"
    ELSE IF \E r \in ApiRoutes :
              Len(p) >= 2 /\ SubSeq(p, 1, 2) = PatternPath(r)
    THEN CHOOSE r \in ApiRoutes : SubSeq(p, 1, 2) = PatternPath(r)
    ELSE RootPattern

\* http.DefaultServeMux with the four patterns of main: a path that is not
\* clean is answered by a redirect to the clean path; a pattern without a
\* trailing slash matches its own path only; "/" matches every other path
muxHandler(p) ==
    IF cleanPath(p) # p THEN "redirect"
    ELSE IF \E r \in ApiRoutes : p = PatternPath(r)
    THEN CHOOSE r \in ApiRoutes : p = PatternPath(r)
    ELSE RootPattern

\* the files of ./frontend
FrontendFiles == {"index.html", "script.js", "styles.css"}

\* http.FileServer(http.Dir("./frontend")): "/" is index.html,
\* "/index.html" is redirected to "./", a missing file is a 404
fileServer(p) ==
    IF p = <<>>
    THEN [status |-> 200, header |-> NoHeader,
          body |-> [kind |-> "file", text |-> <<"index.html">>, json |-> JNull],
          aborted |-> FALSE]
    ELSE IF p = <<"index.html">>
    THEN [status |-> 301, header |-> NoHeader, body |-> NoBody,
          aborted |-> FALSE]
    ELSE IF Len(p) = 1 /\ p[1] \in FrontendFiles
    THEN [status |-> 200, header |-> NoHeader,
          body |-> [kind |-> "file", text |-> p, json |-> JNull],
          aborted |-> FALSE]
    ELSE httpError(NoHeader, <<"404 page not found">>, 404)

\* the mux's answer to a path that is not clean
muxRedirect(p) ==
    [status |-> 301, header |-> NoHeader,
     body |-> [kind |-> "redirect", text |-> cleanPath(p), json |-> JNull],
     aborted |-> FALSE]

\* -------------------------------------------------------------- CloudWatch
MetricIds == {"cpu", "netIn", "netOut"}
Vals  == {10, 20}

\* the query: the last WindowMinutes minutes in periods of PeriodSeconds
WindowMinutes == 10
PeriodSeconds == 300

\* a timestamp is the number of the period it starts, oldest = 1
Times == 1..((WindowMinutes * 60) \div PeriodSeconds)

SeqsUpTo(S, n) == UNION { [1..k -> S] : k \in 0..n }

ValueLists == SeqsUpTo(Vals, MaxPts)

\* ScanBy: TimestampDescending
TimeLists == { ts \in SeqsUpTo(Times, MaxPts) :
                 \A i \in 1..(Len(ts) - 1) : ts[i] > ts[i+1] }

\* the data of one series as the API documents it: as many timestamps as values
ContractData == { d \in [Values : ValueLists, Timestamps : TimeLists] :
                    Len(d.Values) = Len(d.Timestamps) }

\* the ids of a result: each requested id at most once, in any order
IdLists == { ids \in SeqsUpTo(MetricIds, Cardinality(MetricIds)) :
               \A i, j \in 1..Len(ids) : i # j => ids[i] # ids[j] }

\* all MetricDataResults whose series carry data of the set D
ResultsOver(D) ==
    UNION { { [i \in 1..Len(ids) |->
                 [Id |-> ids[i], Values |-> d[i].Values,
                  Timestamps |-> d[i].Timestamps]] :
              d \in [1..Len(ids) -> D] } : ids \in IdLists }

ErrChars == {"x", Q, BS}
ErrTexts == SeqsUpTo(ErrChars, MaxErrLen)

\* what GetMetricData returns: an error, or a result
CwOutcomes(D) ==
    { [err |-> Err(t), series |-> <<>>] : t \in ErrTexts }
      \cup { [err |-> NoErr, series |-> r] : r \in ResultsOver(D) }

ContractOutcomes == CwOutcomes(ContractData)

\* mdr.Timestamps[0].Format(time.RFC3339): period t starts at minute 5t
Pad2(n) == IF n < 10 THEN "0" \o ToString(n) ELSE ToString(n)

FormatRFC3339(t) ==
    "2025-01-01T00:" \o Pad2((t * PeriodSeconds) \div 60) \o ":00Z"

NoDataMessage(b) ==
    IF b = "v2"
    THEN "No metric data returned from CloudWatch. This can happen if the instance is new or metrics are not yet available."
    ELSE "No metric data returned from CloudWatch."

\* fault variant: a series without data is written as null
seriesEntry_v2_null(acc, mdr) ==
    IF Len(mdr.Values) > 0 /\ Len(mdr.Timestamps) > 0
    THEN [acc EXCEPT !.m = MapPut(MapPut(acc.m, mdr.Id, JNum(mdr.Values[1])),
                                  mdr.Id \o "_Timestamp",
                                  JStr(FormatRFC3339(mdr.Timestamps[1])))]
    ELSE [acc EXCEPT !.m = MapPut(acc.m, mdr.Id, JNull)]

\* loop body of src/backend/main.go: both lists must be non-empty
seriesEntry_v2(acc, mdr) ==
    IF Len(mdr.Values) > 0 /\ Len(mdr.Timestamps) > 0
    THEN [acc EXCEPT !.m = MapPut(MapPut(acc.m, mdr.Id, JNum(mdr.Values[1])),
                                  mdr.Id \o "_Timestamp",
                                  JStr(FormatRFC3339(mdr.Timestamps[1])))]
    ELSE [acc EXCEPT !.m = MapPut(acc.m, mdr.Id, JStr("N/A"))]

\* fault variant: the oldest value is taken instead of the first
seriesEntry_v3_last(acc, mdr) ==
    IF Len(mdr.Values) > 0
    THEN IF Len(mdr.Timestamps) = 0
         THEN [acc EXCEPT !.panic = TRUE,
                          !.m = MapPut(acc.m, mdr.Id, JNum(mdr.Values[1]))]
         ELSE [acc EXCEPT !.m = MapPut(MapPut(acc.m, mdr.Id,
                                          JNum(mdr.Values[Len(mdr.Values)])),
                                       mdr.Id \o "_Timestamp",
                                       JStr(FormatRFC3339(mdr.Timestamps[1])))]
    ELSE [acc EXCEPT !.m = MapPut(acc.m, mdr.Id, JStr("N/A"))]

\* loop body of src/unnamed/part_004: only Values is tested, so
\* Timestamps[0] is an index out of range when Timestamps is empty
seriesEntry_v3(acc, mdr) ==
    IF Len(mdr.Values) > 0
    THEN IF Len(mdr.Timestamps) = 0
         THEN [acc EXCEPT !.panic = TRUE,
                          !.m = MapPut(acc.m, mdr.Id, JNum(mdr.Values[1]))]
         ELSE [acc EXCEPT !.m = MapPut(MapPut(acc.m, mdr.Id,
                                              JNum(mdr.Values[1])),
                                       mdr.Id \o "_Timestamp",
                                       JStr(FormatRFC3339(mdr.Timestamps[1])))]
    ELSE [acc EXCEPT !.m = MapPut(acc.m, mdr.Id, JStr("N/A"))]

seriesEntry(b, acc, mdr) ==
    IF b = "v2" THEN seriesEntry_v2(acc, mdr) ELSE seriesEntry_v3(acc, mdr)

\* fault variant: a requested id that the result lacks is reported as N/A
metricResults_fill(b, results, acc) ==
    LET present == { results[i].Id : i \in 1..Len(results) }
        filled == [k \in DOMAIN acc.m \cup (MetricIds \ present) |->
                     IF k \in DOMAIN acc.m THEN acc.m[k] ELSE JStr("N/A")]
        step(a, i) == seriesEntry(b, a, results[i])
        a1 == IF Len(results) >= 1 THEN step([acc EXCEPT !.m = filled], 1)
              ELSE [acc EXCEPT !.m = filled]
        a2 == IF Len(results) >= 2 THEN step(a1, 2) ELSE a1
    IN IF Len(results) >= 3 THEN step(a2, 3) ELSE a2

\* for _, mdr := range resp.MetricDataResults
RECURSIVE metricResults(_, _, _)
metricResults(b, results, acc) ==
    IF Len(results) = 0 \/ acc.panic THEN acc
    ELSE metricResults(b, Tail(results), seriesEntry(b, acc, Head(results)))

MsgAwsNotInit == <<"AWS client not initialized">>
MsgNoInstanceID == <<"EC2 Instance ID not determined. Metrics unavailable.">>
MsgCwPrefix == "Error getting CloudWatch data: "

\* fault variant: the empty result is not noticed
noResults_never(series) == FALSE

\* if len(resp.MetricDataResults) == 0
noResults(series) == Len(series) = 0

\* fault variant: a failed call is tried once more
getMetricDataCalls_retry(out) == IF out.err.failed THEN 2 ELSE 1

\* cwClient.GetMetricData is called once, whatever it returns
getMetricDataCalls(out) == 1

\* fault variant: the test is inverted
identityMissing_inverted(iid) == iid # ""

\* fault variant: the empty-identity test is dropped
identityMissing_never(iid) == FALSE

\* if instanceID == ""
identityMissing(iid) == iid = ""

\* fault variant: the dimension is the identity the metadata service gives
dimensionValue_metadata(iid) == MetadataInstanceID

\* Dimensions: {Name: "InstanceId", Value: aws.String(instanceID)}
dimensionValue(iid) == iid

\* ec2UsageHandler; out is what GetMetricData returns if it is called
ec2UsageHandler(b, cw, iid, out) ==
    IF ~cw
    THEN [resp |-> httpError(ApiHeader, ErrorLiteral(MsgAwsNotInit), 500),
          call |-> NoCall]
    ELSE IF identityMissing(iid)
    THEN [resp |-> httpError(ApiHeader, ErrorLiteral(MsgNoInstanceID), 503),
          call |-> NoCall]
    ELSE LET c == [NoCall EXCEPT !.api = "GetMetricData",
                                 !.n = getMetricDataCalls(out),
                                 !.dim = dimensionValue(iid),
                                 !.window = WindowMinutes,
                                 !.period = PeriodSeconds,
                                 !.err = out.err, !.series = out.series]
             r == metricResults(b, out.series,
                     [panic |-> FALSE,
                      m |-> MapPut(EmptyMap, "InstanceID", JStr(iid))])
             m == IF noResults(out.series)
                  THEN MapPut(r.m, "message", JStr(NoDataMessage(b)))
                  ELSE r.m
         IN
         IF out.err.failed
         THEN [resp |-> httpError(ApiHeader,
                                  SprintfError(MsgCwPrefix, out.err), 500),
               call |-> c]
         ELSE IF r.panic
         THEN [resp |-> handlerPanic, call |-> c]
         ELSE [resp |-> jsonEncode(ApiHeader, JObject(m)), call |-> c]

\* GET /api/ec2-usage, the external outcome drawn from Outcomes
Ec2Usage(Outcomes) ==
    /\ pc = "serving"
    /\ resp = NoResp
    /\ \E p \in RequestPaths : muxHandler(p) = Ec2Route /\ reqPath' = p
    /\ \E out \in Outcomes :
         LET h == ec2UsageHandler(build, cwClient, instanceID, out) IN
         /\ resp' = [route |-> Ec2Route, status |-> h.resp.status,
                     header |-> h.resp.header, body |-> h.resp.body,
                     aborted |-> h.resp.aborted]
         /\ call' = h.call
    /\ UNCHANGED <<build, env, pc, globals, metadata, secretRead,
                   failedBefore, fe, rotated, inflight, secretCall>>

Ec2UsageRequest == Ec2Usage(ContractOutcomes)

\* ------------------------------------------------------------------ GitHub
Logins == {"alice", "bob"}

\* a *github.User as far as the handler reads it
ApiUsers == [Login     : {NilPtr} \cup { Ptr(l) : l \in Logins },
             AvatarURL : {NilPtr, Ptr("https://avatars/u")},
             HTMLURL   : {NilPtr, Ptr("https://github.com/u")},
             RoleName  : {NilPtr, Ptr("admin")}]

\* ListOptions{PerPage: 100}
PerPage == 100

\* a page that is full: PerPage collaborators
FullPage ==
    [i \in 1..PerPage |->
       [Login     |-> Ptr(IF i % 2 = 1 THEN "alice" ELSE "bob"),
        AvatarURL |-> Ptr("https://avatars/u"),
        HTMLURL   |-> Ptr("https://github.com/u"),
        RoleName  |-> IF i = PerPage THEN NilPtr ELSE Ptr("admin")]]

\* what ListCollaborators returns: an error, or the first page with the
\* number of the next page (0 when there is none; a page that is not full
\* is the last one)
GhOutcomes ==
    { [err |-> Err(t), users |-> <<>>, nextPage |-> 0] : t \in ErrTexts }
      \cup { [err |-> NoErr, users |-> us, nextPage |-> 0] :
               us \in SeqsUpTo(ApiUsers, MaxUsers) }
      \cup { [err |-> NoErr, users |-> FullPage, nextPage |-> n] :
               n \in {0, 2} }

\* fault variant: the following pages are fetched too
listCollaboratorsCalls_paging(out) == IF out.nextPage # 0 THEN 2 ELSE 1

\* githubClient.Repositories.ListCollaborators is called once; the
\* *github.Response with NextPage is dropped
listCollaboratorsCalls(out) == 1

\* fault variant: the pointer is read without the nil test
safeDeref_blind(s) == s.v

\* safeDeref: "" for a nil pointer
safeDeref(s) == IF ~s.nil THEN s.v ELSE ""

\* UserInfo{...} of one user
UserInfo(user) ==
    [Login     |-> safeDeref(user.Login),
     AvatarURL |-> safeDeref(user.AvatarURL),
     HTMLURL   |-> safeDeref(user.HTMLURL),
     RoleName  |-> safeDeref(user.RoleName)]

\* var userInfos []UserInfo; for ... { userInfos = append(userInfos, ...) }
\* a slice that was never appended to stays nil
collectUserInfos(users, slice) ==
    IF Len(users) = 0 THEN slice
    ELSE [nil |-> FALSE,
          elems |-> slice.elems
                      \o [i \in 1..Len(users) |-> UserInfo(users[i])]]

NilSlice == [nil |-> TRUE, elems |-> <<>>]

\* encoding/json of a UserInfo, by its struct tags
UserInfoJSON(u) ==
    JObject([k \in {"login", "avatar_url", "html_url", "role_name"} |->
               CASE k = "login"      -> JStr(u.Login)
                 [] k = "avatar_url" -> JStr(u.AvatarURL)
                 [] k = "html_url"   -> JStr(u.HTMLURL)
                 [] k = "role_name"  -> JStr(u.RoleName)])

\* encoding/json of a []UserInfo: a nil slice is written as null
UserInfosJSON(slice) ==
    IF slice.nil THEN JNull
    ELSE JArray([i \in 1..Len(slice.elems) |-> UserInfoJSON(slice.elems[i])])

MsgGithubNotInit == <<"GitHub client not initialized">>
MsgGithubPrefix == "Error getting GitHub users: "

\* the token the store holds after the secret was rotated
RotatedToken == "ghp_rotated"

\* fault variant: the token is read from the store for each request
requestToken_refetch(gc) == IF rotated THEN RotatedToken ELSE gc.token

\* the oauth2.StaticTokenSource built in initGitHub: every call of the
\* client carries the token it was built with
requestToken(gc) == gc.token

\* githubUsersHandler; out is what ListCollaborators returns if it is called
githubUsersHandler(gc, owner, repo, out) ==
    IF ~gc.init
    THEN [resp |-> httpError(ApiHeader, ErrorLiteral(MsgGithubNotInit), 500),
          call |-> NoCall]
    ELSE LET c == [NoCall EXCEPT !.api = "ListCollaborators",
                                 !.n = listCollaboratorsCalls(out),
                                 !.owner = owner, !.repo = repo,
                                 !.perPage = PerPage,
                                 !.token = requestToken(gc),
                                 !.err = out.err, !.users = out.users,
                                 !.nextPage = out.nextPage]
         IN
         IF out.err.failed
         THEN [resp |-> httpError(ApiHeader,
                                  SprintfError(MsgGithubPrefix, out.err), 500),
               call |-> c]
         ELSE [resp |-> jsonEncode(ApiHeader,
                           UserInfosJSON(collectUserInfos(out.users, NilSlice))),
               call |-> c]

\* GET /api/github-users
GithubUsersRequest ==
    /\ pc = "serving"
    /\ resp = NoResp
    /\ \E p \in RequestPaths : muxHandler(p) = GithubRoute /\ reqPath' = p
    /\ \E out \in GhOutcomes :
         LET h == githubUsersHandler(githubClient, githubOwner, githubRepo, out)
         IN
         /\ resp' = [route |-> GithubRoute, status |-> h.resp.status,
                     header |-> h.resp.header, body |-> h.resp.body,
                     aborted |-> h.resp.aborted]
         /\ call' = h.call
    /\ UNCHANGED <<build, env, pc, globals, metadata, secretRead,
                   failedBefore, fe, rotated, inflight, secretCall>>

\* --------------------------------------------------------------- free tier
\* fault variant: the message carries the time of the request
FreeTierMessage_varying(b) ==
    IF failedBefore THEN "Free Tier usage is unavailable."
    ELSE "Monitor AWS Free Tier usage via AWS Budgets and the Billing Console."

FreeTierMessage(b) ==
    IF b = "v2"
    THEN "Monitor AWS Free Tier usage via AWS Budgets and the Billing Console. Programmatic access can incur costs."
    ELSE "Monitor AWS Free Tier usage via AWS Budgets and the Billing Console."

\* the handler func registered for /api/free-tier-usage
\* fault variant: the handler wants an instance identity
freeTierHandler_guarded(b) ==
    IF instanceID = ""
    THEN httpError(ApiHeader, ErrorLiteral(MsgNoInstanceID), 503)
    ELSE jsonEncode(ApiHeader,
                    JObject(MapPut(EmptyMap, "message",
                                   JStr(FreeTierMessage(b)))))

freeTierHandler(b) ==
    jsonEncode(ApiHeader,
               JObject(MapPut(EmptyMap, "message", JStr(FreeTierMessage(b)))))

\* GET /api/free-tier-usage
FreeTierRequest ==
    /\ pc = "serving"
    /\ resp = NoResp
    /\ \E p \in RequestPaths : muxHandler(p) = FreeTierRoute /\ reqPath' = p
    /\ LET r == freeTierHandler(build) IN
       resp' = [route |-> FreeTierRoute, status |-> r.status,
                header |-> r.header, body |-> r.body, aborted |-> r.aborted]
    /\ call' = NoCall
    /\ UNCHANGED <<build, env, pc, globals, metadata, secretRead,
                   failedBefore, fe, rotated, inflight, secretCall>>

\* a request for any other path: the mux answers it itself or hands it to
\* the file server
OtherRequest ==
    /\ pc = "serving"
    /\ resp = NoResp
    /\ \E p \in RequestPaths :
         /\ muxHandler(p) \notin ApiRoutes
         /\ reqPath' = p
         /\ LET r == IF muxHandler(p) = "redirect" THEN muxRedirect(p)
                     ELSE fileServer(p)
            IN resp' = [route |-> muxHandler(p), status |-> r.status,
                        header |-> r.header, body |-> r.body,
                        aborted |-> r.aborted]
    /\ call' = NoCall
    /\ UNCHANGED <<build, env, pc, globals, metadata, secretRead,
                   failedBefore, fe, rotated, inflight, secretCall>>

\* the handler has returned and the server waits for the next request
FinishRequest ==
    /\ pc = "serving"
    /\ resp # NoResp
    /\ resp' = NoResp
    /\ call' = NoCall
    /\ reqPath' = NoPath
    /\ failedBefore' = (failedBefore \/ resp.aborted \/ resp.status >= 500)
    /\ UNCHANGED <<build, env, pc, globals, metadata, secretRead, fe, rotated, inflight, secretCall>>

Next ==
    \/ InitVault
    \/ InitAWS
    \/ InitGitHub
    \/ Listen
    \/ Ec2UsageRequest
    \/ GithubUsersRequest
    \/ FreeTierRequest
    \/ OtherRequest
    \/ FinishRequest

Spec == Init /\ [][Next]_vars

\* the data of one series with no relation between its two lists
RawData == [Values : ValueLists, Timestamps : TimeLists]

\* answers of GetMetricData with such data, for results that lack at least
\* one of the requested series
RawOutcomes ==
    { [err |-> Err(t), series |-> <<>>] : t \in ErrTexts }
      \cup { [err |-> NoErr, series |-> r] :
               r \in UNION { { [i \in 1..Len(ids) |->
                                  [Id |-> ids[i], Values |-> d[i].Values,
                                   Timestamps |-> d[i].Timestamps]] :
                               d \in [1..Len(ids) -> RawData] } :
                             ids \in { l \in IdLists :
                                         Len(l) < Cardinality(MetricIds) } } }

\* GET /api/ec2-usage answered from RawOutcomes
Ec2UsageRaw == Ec2Usage(RawOutcomes)

NextRaw ==
    \/ InitVault
    \/ InitAWS
    \/ InitGitHub
    \/ Listen
    \/ Ec2UsageRaw
    \/ FinishRequest

\* the server with a CloudWatch that may return any two lists for a series
SpecRaw == Init /\ [][NextRaw]_vars

\* the secret in the store is replaced while the server runs; the process
\* has no part in it
RotateSecret ==
    /\ pc = "serving"
    /\ ~rotated
    /\ rotated' = TRUE
    /\ UNCHANGED <<build, env, pc, globals, metadata, secretRead, call, resp,
                   served, fe, inflight, secretCall>>

NextRotation ==
    \/ Next
    \/ RotateSecret

\* the server with a secret store whose content changes under it
SpecRotation == Init /\ [][NextRotation]_vars

\* ------------------------------------------------ requests handled at once
\* net/http runs each handler in a goroutine of its own.  A handler that
\* makes an external call is two steps here: up to the call, and from the
\* answer of the call to the end; steps of different requests interleave.

\* the answers of the external calls used when requests overlap
SmallCwOutcomes ==
    { [err |-> Err(<<"x">>), series |-> <<>>],
      [err |-> NoErr, series |-> <<>>],
      [err |-> NoErr,
       series |-> <<[Id |-> "cpu", Values |-> <<10>>, Timestamps |-> <<1>>]>>] }

SmallGhOutcomes ==
    { [err |-> Err(<<"x">>), users |-> <<>>, nextPage |-> 0],
      [err |-> NoErr, users |-> <<>>, nextPage |-> 0],
      [err |-> NoErr, nextPage |-> 0,
       users |-> <<[Login |-> Ptr("alice"), AvatarURL |-> NilPtr,
                    HTMLURL |-> NilPtr, RoleName |-> Ptr("admin")]>>] }

\* fault variant: the metrics handler clears the identity when it starts
handlerWrites_reset(route, g) ==
    IF route = Ec2Route THEN [g EXCEPT ![4] = ""] ELSE g

\* what a handler assigns to the package variables: the handlers hold no
\* assignment to any of them
handlerWrites(route, g) == g

\* the package variables after a handler's step
WriteGlobals(g) ==
    /\ vaultClient' = g[1]
    /\ cwClient' = g[2]
    /\ githubClient' = g[3]
    /\ instanceID' = g[4]
    /\ githubOwner' = g[5]
    /\ githubRepo' = g[6]

\* the slot of a handler that has written its response
DoneSlot(route, out, h) ==
    [route |-> route, stage |-> "done", out |-> out,
     status |-> h.resp.status, header |-> h.resp.header,
     body |-> h.resp.body, aborted |-> h.resp.aborted, call |-> h.call]

\* the slot of a handler that waits for its external call
CalledSlot(route, h) ==
    [IdleSlot EXCEPT !.route = route, !.stage = "called", !.call = h.call]

\* a handler's step up to its external call, or to its early return
Begin(i, route, h) ==
    /\ pc = "serving"
    /\ inflight[i].stage = "idle"
    /\ inflight' = [inflight EXCEPT ![i] =
                      IF h.call = NoCall
                      THEN DoneSlot(route, IdleSlot.out, h)
                      ELSE CalledSlot(route, h)]
    /\ WriteGlobals(handlerWrites(route, globals))
    /\ UNCHANGED <<build, env, pc, metadata, secretRead, call, resp, served,
                   fe, rotated, secretCall>>

\* a handler's step from the answer of its call to its return; what was
\* sent with the call is what the first step sent
Return(i, route, out, h) ==
    /\ pc = "serving"
    /\ inflight[i].stage = "called"
    /\ inflight[i].route = route
    /\ inflight' = [inflight EXCEPT ![i] =
                      DoneSlot(route, out,
                               [resp |-> h.resp,
                                call |-> [h.call EXCEPT
                                            !.dim = inflight[i].call.dim,
                                            !.token = inflight[i].call.token,
                                            !.owner = inflight[i].call.owner,
                                            !.repo = inflight[i].call.repo]])]
    /\ WriteGlobals(handlerWrites(route, globals))
    /\ UNCHANGED <<build, env, pc, metadata, secretRead, call, resp, served,
                   fe, rotated, secretCall>>

Ec2UsageBegin ==
    \E i \in Slots :
       Begin(i, Ec2Route,
             ec2UsageHandler(build, cwClient, instanceID,
                             [err |-> NoErr, series |-> <<>>]))

Ec2UsageReturn ==
    \E i \in Slots, out \in SmallCwOutcomes :
       Return(i, Ec2Route, out,
              ec2UsageHandler(build, cwClient, instanceID, out))

GithubUsersBegin ==
    \E i \in Slots :
       Begin(i, GithubRoute,
             githubUsersHandler(githubClient, githubOwner, githubRepo,
                                [err |-> NoErr, users |-> <<>>,
                                 nextPage |-> 0]))

GithubUsersReturn ==
    \E i \in Slots, out \in SmallGhOutcomes :
       Return(i, GithubRoute, out,
              githubUsersHandler(githubClient, githubOwner, githubRepo, out))

\* the free-tier handler makes no call: it is one step
FreeTierServe ==
    \E i \in Slots :
       Begin(i, FreeTierRoute,
             [resp |-> freeTierHandler(build), call |-> NoCall])

\* the connection of an answered request is done with
Release ==
    /\ pc = "serving"
    /\ \E i \in Slots :
         /\ inflight[i].stage = "done"
         /\ inflight' = [inflight EXCEPT ![i] = IdleSlot]
    /\ UNCHANGED <<build, env, pc, globals, metadata, secretRead, call, resp,
                   served, fe, rotated, secretCall>>

NextConcurrent ==
    \/ InitVault
    \/ InitAWS
    \/ InitGitHub
    \/ Listen
    \/ Ec2UsageBegin
    \/ Ec2UsageReturn
    \/ GithubUsersBegin
    \/ GithubUsersReturn
    \/ FreeTierServe
    \/ Release

\* the server with up to MaxInFlight requests handled at the same time
SpecConcurrent == Init /\ [][NextConcurrent]_vars

\* ------------------------------------------------- reading an error body
\* The client reads an error body with response.json().  ScanString reads a
\* JSON string from the character after its opening quote: an unescaped
\* quote ends it, a backslash must be followed by a quote or a backslash
\* (the other escapes need letters the texts here never hold), a raw
\* newline is not allowed.
RECURSIVE ScanString(_, _, _)
ScanString(text, i, acc) ==
    IF i > Len(text) THEN [ok |-> FALSE, next |-> i, chars |-> acc]
    ELSE IF text[i] = Q THEN [ok |-> TRUE, next |-> i + 1, chars |-> acc]
    ELSE IF text[i] = NL THEN [ok |-> FALSE, next |-> i, chars |-> acc]
    ELSE IF text[i] = BS
    THEN IF i + 1 <= Len(text) /\ text[i+1] \in {Q, BS}
         THEN ScanString(text, i + 2, Append(acc, text[i+1]))
         ELSE [ok |-> FALSE, next |-> i, chars |-> acc]
    ELSE ScanString(text, i + 1, Append(acc, text[i]))

\* the object {"error": "<string>"}, optionally followed by a newline
ParseErrorObject(text) ==
    LET open == <<"{", Q, "error", Q, ":", " ", Q>>
        s == ScanString(text, Len(open) + 1, <<>>)
    IN
    IF Len(text) < Len(open) \/ SubSeq(text, 1, Len(open)) # open
    THEN [ok |-> FALSE, error |-> <<>>]
    ELSE IF s.ok /\ SubSeq(text, s.next, Len(text)) \in {<<"}">>, <<"}", NL>>}
    THEN [ok |-> TRUE, error |-> s.chars]
    ELSE [ok |-> FALSE, error |-> <<>>]

\* ------------------------------------------------------------ the claims
RequiredEnv == {"VAULT_ADDR", "VAULT_TOKEN", "GITHUB_OWNER", "GITHUB_REPO"}

Max(S) == CHOOSE x \in S : \A y \in S : y <= x
Range(f) == { f[i] : i \in DOMAIN f }

\* a response to /api/ec2-usage for which GetMetricData returned a result
Ec2Success ==
    resp.route = Ec2Route /\ call.api = "GetMetricData" /\ ~call.err.failed

\* a response to /api/github-users for which ListCollaborators returned a page
GithubSuccess ==
    resp.route = GithubRoute /\ call.api = "ListCollaborators"
      /\ ~call.err.failed

\* C1: with an empty instance identity every answer of /api/ec2-usage has
\* status 503 and a JSON body whose error field is the message about the
\* instance ID; it is never 200 or 500.
C1_UnresolvedIdentity503 ==
    (resp.route = Ec2Route /\ instanceID = "") =>
        /\ resp.status = 503
        /\ resp.body.kind = "text"
        /\ ParseErrorObject(resp.body.text).ok
        /\ ParseErrorObject(resp.body.text).error = MsgNoInstanceID

C1_Witness ==
    /\ resp.route = Ec2Route
    /\ metadata.outcome = "error"
    /\ env["EC2_INSTANCE_ID_OVERRIDE"] = ""
    /\ resp.status = 503

\* C2: in the answer to a successful CloudWatch result every series without
\* datapoints has its id mapped to the string "N/A"; the answer is a 200
\* with a JSON object, so the key is neither null nor missing and the
\* handler did not fail.
C2_EmptySeriesIsNA ==
    Ec2Success =>
        /\ resp.status = 200
        /\ ~resp.aborted
        /\ resp.body.kind = "json"
        /\ resp.body.json.t = "object"
        /\ \A i \in 1..Len(call.series) :
             Len(call.series[i].Values) = 0 =>
                /\ call.series[i].Id \in DOMAIN resp.body.json.v
                /\ resp.body.json.v[call.series[i].Id] = JStr("N/A")

C2_Witness ==
    /\ Ec2Success
    /\ \E i, j \in 1..Len(call.series) :
         /\ Len(call.series[i].Values) = 0
         /\ Len(call.series[j].Values) > 0
         /\ resp.body.json.v[call.series[i].Id] = JStr("N/A")

\* every requested series is in the result and has datapoints
AllThreeHaveData ==
    /\ { call.series[i].Id : i \in 1..Len(call.series) } = MetricIds
    /\ \A i \in 1..Len(call.series) :
         Len(call.series[i].Values) > 0 /\ Len(call.series[i].Timestamps) > 0

\* C3: when all three series hold datapoints the answer has exactly seven
\* keys: each id with the first value of its series as a number, each
\* <id>_Timestamp with the most recent timestamp in RFC3339, and InstanceID
\* with the identity resolved at startup; no message, no error.
C3_SevenKeys ==
    (Ec2Success /\ AllThreeHaveData) =>
        /\ resp.status = 200
        /\ resp.body.json.t = "object"
        /\ DOMAIN resp.body.json.v =
             MetricIds \cup { id \o "_Timestamp" : id \in MetricIds }
               \cup {"InstanceID"}
        /\ Cardinality(DOMAIN resp.body.json.v) = 7
        /\ resp.body.json.v["InstanceID"] = JStr(instanceID)
        /\ instanceID \in {MetadataInstanceID, "i-override"}
        /\ \A i \in 1..Len(call.series) :
             LET mdr == call.series[i] IN
             /\ resp.body.json.v[mdr.Id] = JNum(mdr.Values[1])
             /\ resp.body.json.v[mdr.Id \o "_Timestamp"] =
                  JStr(FormatRFC3339(Max(Range(mdr.Timestamps))))
             /\ resp.body.json.v[mdr.Id \o "_Timestamp"].v \in
                  {"2025-01-01T00:05:00Z", "2025-01-01T00:10:00Z"}

C3_Witness ==
    /\ Ec2Success
    /\ AllThreeHaveData
    /\ \E i \in 1..Len(call.series) :
         /\ Len(call.series[i].Values) = 2
         /\ call.series[i].Values[1] # call.series[i].Values[2]
    /\ Cardinality(DOMAIN resp.body.json.v) = 7

UserKeys == {"login", "avatar_url", "html_url", "role_name"}

\* C4: the body of a successful /api/github-users answer is a JSON array
\* as long as the API response and in its order, every element with the
\* four keys as strings; also for an API response without collaborators.
C4_ArrayOfRecords ==
    GithubSuccess =>
        /\ resp.status = 200
        /\ resp.body.json.t = "array"
        /\ Len(resp.body.json.v) = Len(call.users)
        /\ \A i \in 1..Len(call.users) :
             /\ resp.body.json.v[i].t = "object"
             /\ DOMAIN resp.body.json.v[i].v = UserKeys
             /\ \A k \in UserKeys : resp.body.json.v[i].v[k].t = "str"
             /\ resp.body.json.v[i].v["login"].v =
                  (IF call.users[i].Login.nil THEN ""
                   ELSE call.users[i].Login.v)

\* what a field of the API response must become in the output record
Degraded(p) == IF p.nil THEN "" ELSE p.v

\* C5: in a successful answer every collaborator of the API response has
\* its record, at its place; a field that is nil in the API response is ""
\* in the record and a field that is present is copied unchanged.
C5_MissingFieldsEmpty ==
    (GithubSuccess /\ Len(call.users) > 0) =>
        /\ resp.status = 200
        /\ ~resp.aborted
        /\ resp.body.json.t = "array"
        /\ Len(resp.body.json.v) = Len(call.users)
        /\ \A i \in 1..Len(call.users) :
             LET rec == resp.body.json.v[i].v
                 u == call.users[i]
             IN
             /\ rec["login"]      = JStr(Degraded(u.Login))
             /\ rec["avatar_url"] = JStr(Degraded(u.AvatarURL))
             /\ rec["html_url"]   = JStr(Degraded(u.HTMLURL))
             /\ rec["role_name"]  = JStr(Degraded(u.RoleName))

C5_Witness ==
    /\ GithubSuccess
    /\ Len(call.users) = 2
    /\ ~call.users[1].AvatarURL.nil
    /\ call.users[2].AvatarURL.nil
    /\ ~call.users[2].Login.nil
    /\ Len(resp.body.json.v) = 2
    /\ resp.body.json.v[2].v["avatar_url"] = JStr("")

\* C6: when one of the required environment variables is unset or empty at
\* process start, the listener is never bound.
C6_MissingEnvNeverBinds ==
    (\E n \in RequiredEnv : env[n] = "") => pc # "serving"

SecretFailures == {"client", "path", "get", "nodata", "key"}

\* C7: a failed read of the GitHub token ends the process before the
\* listener is bound; the store is read at most once; whenever startup has
\* passed initGitHub the collaborator client holds the token read from the
\* store, and every collaborator call is made with it.
C7_SecretFailureIsFatal ==
    /\ secretRead.outcome \in SecretFailures => pc = "exited"
    /\ secretRead.n <= 1
    /\ pc \in {"listen", "serving"} =>
          /\ secretRead.outcome = "ok"
          /\ secretRead.n = 1
          /\ githubClient.init
          /\ githubClient.token = secretRead.value
          /\ githubClient.token = GithubTokenValue
    /\ call.api = "ListCollaborators" => call.token = GithubTokenValue

C7_Witness ==
    /\ secretRead.outcome = "key"
    /\ secretRead.n = 1
    /\ pc = "exited"
    /\ \A n \in EnvVars : env[n] # ""

\* the three ways a request fails
IdentityFailure == resp.route = Ec2Route /\ cwClient /\ instanceID = ""
ClientFailure ==
    \/ resp.route = Ec2Route /\ ~cwClient
    \/ resp.route = GithubRoute /\ ~githubClient.init
RemoteFailure == call.api # "" /\ call.err.failed

\* C8: a failed API request is answered 503 exactly when the metrics client
\* is initialized and the identity is empty, and 500 when a client is
\* uninitialized or the remote call returned an error; every other request
\* is answered 200, so no failure carries 200.
C8_FailureStatus ==
    resp.route \in ApiRoutes =>
        /\ resp.status \in {200, 500, 503}
        /\ resp.status = 503 <=> IdentityFailure
        /\ (ClientFailure \/ RemoteFailure) => resp.status = 500
        /\ resp.status = 200 <=>
             ~(IdentityFailure \/ ClientFailure \/ RemoteFailure)

C8_Witness ==
    /\ resp.route = GithubRoute
    /\ RemoteFailure
    /\ resp.status = 500

\* the text the error field must hold after a remote error
RemoteErrorText ==
    IF resp.route = Ec2Route THEN <<MsgCwPrefix>> \o call.err.text
    ELSE <<MsgGithubPrefix>> \o call.err.text

\* C9: after a remote error the body is a well-formed JSON object whose
\* error field holds the error text, whatever characters the text has.
C9_ErrorBodyIsJSON ==
    (resp.route \in {Ec2Route, GithubRoute} /\ RemoteFailure) =>
        /\ resp.body.kind = "text"
        /\ ParseErrorObject(resp.body.text).ok
        /\ ParseErrorObject(resp.body.text).error = RemoteErrorText

\* C10: every answer of the three API routes carries
\* Content-Type: application/json and Access-Control-Allow-Origin: *.
C10_JsonAndCorsHeaders ==
    (resp.route \in ApiRoutes /\ ~resp.aborted) =>
        /\ resp.header.ctype = "application/json"
        /\ resp.header.acao = "*"

\* C11: when GetMetricData succeeds with no series at all the answer is a
\* 200 whose body holds InstanceID and the informational message, and no
\* error field.
C11_EmptyResultMessage ==
    (Ec2Success /\ Len(call.series) = 0) =>
        /\ resp.status = 200
        /\ resp.body.kind = "json"
        /\ resp.body.json.t = "object"
        /\ DOMAIN resp.body.json.v = {"InstanceID", "message"}
        /\ resp.body.json.v["InstanceID"] = JStr(instanceID)
        /\ resp.body.json.v["message"].t = "str"
        /\ resp.body.json.v["message"].v # ""

C11_Witness ==
    /\ Ec2Success
    /\ Len(call.series) = 0
    /\ resp.status = 200
    /\ "message" \in DOMAIN resp.body.json.v

\* the static message of each revision
StaticFreeTierText ==
    IF build = "v2"
    THEN "Monitor AWS Free Tier usage via AWS Budgets and the Billing Console. Programmatic access can incur costs."
    ELSE "Monitor AWS Free Tier usage via AWS Budgets and the Billing Console."

\* C12: every answer of /api/free-tier-usage is a 200 with the one static
\* message of the running revision, whatever was served before, whatever
\* the identity is and whether earlier requests failed.
C12_FreeTierStatic ==
    resp.route = FreeTierRoute =>
        /\ resp.status = 200
        /\ resp.body.kind = "json"
        /\ resp.body.json = JObject([k \in {"message"} |->
                                       JStr(StaticFreeTierText)])

C12_Witness ==
    /\ resp.route = FreeTierRoute
    /\ failedBefore
    /\ instanceID = ""
    /\ resp.status = 200

\* C13: after a metadata query that failed or returned a non-success status
\* the identity is the value of EC2_INSTANCE_ID_OVERRIDE, so it is empty
\* exactly when that variable is unset or empty.
C13_FallbackToOverride ==
    metadata.outcome \in {"error", "non200"} =>
        /\ instanceID = env["EC2_INSTANCE_ID_OVERRIDE"]
        /\ instanceID = "" <=> env["EC2_INSTANCE_ID_OVERRIDE"] = ""

C13_Witness ==
    /\ metadata.outcome = "non200"
    /\ instanceID = "i-override"
    /\ pc = "serving"

\* C14: whatever the metadata query gives, the step that makes it does not
\* end the process: startup goes on to initGitHub.
C14_IdentityNeverFatal ==
    [][(~metadata.queried /\ metadata'.queried) => pc' = "initGitHub"]_vars

\* the body of a 500 after a failed GetMetricData call
CwErrorBody ==
    <<"{", Q, "error", Q, ":", " ", Q, "Error getting CloudWatch data: ">>
      \o call.err.text \o <<Q, "}", NL>>

\* C15: a request to /api/ec2-usage makes at most one GetMetricData call,
\* and exactly one when client and identity are there, also after earlier
\* failures; a failed call is answered 500 with the error text in the body,
\* a call that succeeded is answered 200.
C15_OneCallNoRetry ==
    resp.route = Ec2Route =>
        /\ call.n <= 1
        /\ (cwClient /\ instanceID # "") =>
              (call.api = "GetMetricData" /\ call.n = 1)
        /\ RemoteFailure =>
              (resp.status = 500 /\ resp.body.text = CwErrorBody)
        /\ (call.n = 1 /\ ~call.err.failed) => resp.status = 200

C15_Witness ==
    /\ resp.route = Ec2Route
    /\ failedBefore
    /\ RemoteFailure
    /\ call.n = 1
    /\ resp.status = 500

\* the records an answer of /api/github-users holds
OutputRecords ==
    IF resp.body.json.t = "array" THEN resp.body.json.v ELSE <<>>

\* C16: a request to /api/github-users makes exactly one ListCollaborators
\* call, with page size 100; the answer holds the records of that first
\* page, at most 100, also when the API says there is a next page.
C16_FirstPageOnly ==
    (resp.route = GithubRoute /\ githubClient.init) =>
        /\ call.api = "ListCollaborators"
        /\ call.n = 1
        /\ call.perPage = 100
        /\ ~call.err.failed =>
              /\ Len(OutputRecords) <= 100
              /\ Len(OutputRecords) = Len(call.users)
              /\ \A i \in 1..Len(call.users) :
                   OutputRecords[i].v["login"].v
                       = safeDeref(call.users[i].Login)

C16_Witness ==
    /\ resp.route = GithubRoute
    /\ call.n = 1
    /\ call.nextPage # 0
    /\ Len(call.users) = 100
    /\ Len(OutputRecords) = 100

\* --------------------------------------------------------------- frontend
\* src/frontend/script.js running in a page.  fe.ids are the element ids of
\* the page, fe.dom the text of each, fe.net what each section's request
\* will be answered with, fe.fetch where each section's async function is.
Sections == {"ec2", "freeTier", "github"}

\* the ids of the index.html of the repository
BundledIds ==
    {"ec2-card", "ec2-instance-id", "ec2-data-container", "free-tier-card",
     "free-tier-data", "ec2-hours-status", "data-transfer-status",
     "s3-storage-status", "github-card", "github-data-container",
     "last-updated"}

\* the ids script.js looks up, by section
SectionFields(s) ==
    CASE s = "ec2" ->
           {"ec2-instance-id", "ec2-cpu", "ec2-net-in", "ec2-net-out",
            "ec2-memory", "ec2-disk", "ec2-last-updated"}
      [] s = "freeTier" ->
           {"ft-ec2-hours-used", "ft-ec2-hours-remaining",
            "ft-data-transfer-out-used", "ft-data-transfer-out-remaining",
            "ft-last-updated"}
      [] s = "github" ->
           {"github-users-list", "github-repo-name", "github-last-updated"}

\* a page that has every element script.js addresses
ScriptIds ==
    UNION { SectionFields(s) : s \in Sections } \cup {"ec2-data-container"}

Pages == {BundledIds, ScriptIds}

\* what fetchData gives for /api/ec2-usage: it throws (a status that is not
\* ok, or no answer), or the object with metrics, or the one with a message
Ec2Answers ==
    { [ok |-> FALSE, data |-> "none"], [ok |-> TRUE, data |-> "metrics"],
      [ok |-> TRUE, data |-> "message"] }

FreeTierAnswers ==
    { [ok |-> FALSE, data |-> "none"], [ok |-> TRUE, data |-> "message"] }

\* for /api/github-users the body is an array of users or null
GithubAnswers ==
    { [ok |-> FALSE, data |-> "none"], [ok |-> TRUE, data |-> "users"],
      [ok |-> TRUE, data |-> "null"] }

Networks ==
    { [s \in Sections |->
         CASE s = "ec2" -> a [] s = "freeTier" -> b [] s = "github" -> c] :
      a \in Ec2Answers, b \in FreeTierAnswers, c \in GithubAnswers }

\* setText: nothing happens when the element is missing
setText(dom, id, text) ==
    IF id \in DOMAIN dom
    THEN [dom EXCEPT ![id] = IF text = "" THEN "N/A" ELSE text]
    ELSE dom

\* updateTimestamp: nothing happens when the element is missing
updateTimestamp(dom, id) ==
    IF id \in DOMAIN dom THEN [dom EXCEPT ![id] = "(now)"] ELSE dom

RECURSIVE setTexts(_, _, _)
setTexts(dom, idSeq, text) ==
    IF Len(idSeq) = 0 THEN dom
    ELSE setTexts(setText(dom, Head(idSeq), text), Tail(idSeq), text)

\* document.getElementById(id).textContent = text: a TypeError when the
\* element is missing
assignText(dom, id, text) ==
    IF id \in DOMAIN dom
    THEN [dom |-> [dom EXCEPT ![id] = text], threw |-> FALSE]
    ELSE [dom |-> dom, threw |-> TRUE]

\* initializeDashboard: three assignments, the first missing element throws
initializeDashboard(dom) ==
    LET a == assignText(dom, "ec2-last-updated", "Fetching...")
        b == assignText(a.dom, "ft-last-updated", "N/A (Manual Check)")
        c == assignText(b.dom, "github-last-updated", "Fetching...")
    IN IF a.threw THEN a ELSE IF b.threw THEN b ELSE c

\* the end of a catch block: the last assignment is not guarded
catchEnd(dom, id) ==
    LET a == assignText(dom, id, "Error")
    IN [dom |-> a.dom, end |-> IF a.threw THEN "threw" ELSE "error"]

\* fetchEC2Usage once fetchData has settled with answer r
fetchEC2Usage(dom, r) ==
    LET v(t) == IF r.data = "metrics" THEN t ELSE "N/A"
        d1 == setText(dom, "ec2-instance-id", "i-0abc")
        d2 == setText(d1, "ec2-cpu", v("10.00%"))
        d3 == setText(d2, "ec2-net-in", v("20 bytes"))
        d4 == setText(d3, "ec2-net-out", v("20 bytes"))
        d5 == setTexts(d4, <<"ec2-memory", "ec2-disk">>, "N/A")
        msgThrows == r.data = "message" /\ "ec2-data-container" \notin DOMAIN dom
        d6 == IF r.data = "message" /\ ~msgThrows
              THEN [d5 EXCEPT !["ec2-data-container"] = "(message)"] ELSE d5
        caught == setTexts(IF r.ok THEN d5 ELSE dom,
                           <<"ec2-instance-id", "ec2-cpu", "ec2-memory",
                             "ec2-disk", "ec2-net-in", "ec2-net-out">>,
                           "Error")
    IN IF r.ok /\ ~msgThrows
       THEN [dom |-> updateTimestamp(d6, "ec2-last-updated"),
             end |-> "rendered"]
       ELSE catchEnd(caught, "ec2-last-updated")

FreeTierFieldSeq ==
    <<"ft-ec2-hours-used", "ft-ec2-hours-remaining",
      "ft-data-transfer-out-used", "ft-data-transfer-out-remaining">>

\* fetchFreeTierUsage: the answer has none of the fields read, so each
\* field shows N/A
fetchFreeTierUsage(dom, r) ==
    IF r.ok
    THEN [dom |-> updateTimestamp(setTexts(dom, FreeTierFieldSeq, "N/A"),
                                  "ft-last-updated"),
          end |-> "rendered"]
    ELSE catchEnd(setTexts(dom, FreeTierFieldSeq, "Error"), "ft-last-updated")

\* fetchGitHubUsers: usersListElement is used without a test
fetchGitHubUsers(dom, r) ==
    LET hasList == "github-users-list" \in DOMAIN dom
        d1 == setText(dom, "github-repo-name", "Configured Repository")
        tryThrows == ~r.ok \/ r.data # "users" \/ ~hasList
        d2 == IF r.ok THEN d1 ELSE dom
    IN IF ~tryThrows
       THEN [dom |-> updateTimestamp(
                        [d1 EXCEPT !["github-users-list"] = "(users)"],
                        "github-last-updated"),
             end |-> "rendered"]
       ELSE IF ~hasList THEN [dom |-> d2, end |-> "threw"]
       ELSE catchEnd(setText([d2 EXCEPT !["github-users-list"] = "(error item)"],
                             "github-repo-name", "Error"),
                     "github-last-updated")

\* the DOMContentLoaded handler: initializeDashboard, then fetchAllData
\* starts the three fetches; an exception of initializeDashboard ends the
\* handler
PageLoad ==
    /\ fe.pc = "off"
    /\ \E ids \in Pages, net \in Networks :
         LET r == initializeDashboard([id \in ids |-> "(html)"]) IN
         fe' = [ids |-> ids, dom |-> r.dom, net |-> net,
                pc |-> IF r.threw THEN "crashed" ELSE "fetching",
                fetch |-> [s \in Sections |->
                             IF r.threw THEN "idle" ELSE "pending"]]
    /\ UNCHANGED <<build, env, pc, globals, metadata, secretRead, call, resp,
                   served, rotated, inflight, secretCall>>

\* fetchEC2Usage goes on after its await and runs to its end
Ec2UsageSettled ==
    /\ fe.pc = "fetching"
    /\ fe.fetch["ec2"] = "pending"
    /\ LET r == fetchEC2Usage(fe.dom, fe.net["ec2"]) IN
       fe' = [fe EXCEPT !.dom = r.dom, !.fetch["ec2"] = r.end]
    /\ UNCHANGED <<build, env, pc, globals, metadata, secretRead, call, resp,
                   served, rotated, inflight, secretCall>>

\* fetchFreeTierUsage goes on after its await and runs to its end
FreeTierSettled ==
    /\ fe.pc = "fetching"
    /\ fe.fetch["freeTier"] = "pending"
    /\ LET r == fetchFreeTierUsage(fe.dom, fe.net["freeTier"]) IN
       fe' = [fe EXCEPT !.dom = r.dom, !.fetch["freeTier"] = r.end]
    /\ UNCHANGED <<build, env, pc, globals, metadata, secretRead, call, resp,
                   served, rotated, inflight, secretCall>>

\* fetchGitHubUsers goes on after its await and runs to its end
GithubUsersSettled ==
    /\ fe.pc = "fetching"
    /\ fe.fetch["github"] = "pending"
    /\ LET r == fetchGitHubUsers(fe.dom, fe.net["github"]) IN
       fe' = [fe EXCEPT !.dom = r.dom, !.fetch["github"] = r.end]
    /\ UNCHANGED <<build, env, pc, globals, metadata, secretRead, call, resp,
                   served, rotated, inflight, secretCall>>

NextFrontend ==
    \/ PageLoad
    \/ Ec2UsageSettled
    \/ FreeTierSettled
    \/ GithubUsersSettled

\* the page in a browser; the backend is what fe.net stands for
SpecFrontend == Init /\ [][NextFrontend]_vars

\* no script activity is left
PageAtRest ==
    \/ fe.pc = "crashed"
    \/ fe.pc = "fetching" /\ \A s \in Sections : fe.fetch[s] # "pending"

\* C17: in the page of the repository, once the three fetches have settled
\* in whatever order, a section whose request failed shows "Error" in its
\* fields and a section whose request succeeded has rendered its answer.
C17_SectionsIndependent ==
    (fe.ids = BundledIds /\ PageAtRest) =>
        \A s \in Sections :
            /\ fe.net[s].ok => fe.fetch[s] = "rendered"
            /\ ~fe.net[s].ok =>
                  /\ fe.fetch[s] = "error"
                  /\ \A id \in SectionFields(s) \cap fe.ids :
                       fe.dom[id] = "Error"

\* the paths of the three API routes
ApiPaths == { PatternPath(r) : r \in ApiRoutes }

\* a request is being answered and its path is not one of the API paths
NonApiRequest == reqPath # NoPath /\ reqPath \notin ApiPaths

\* C18 as stated: every request whose path is not exactly one of the three
\* API paths is dispatched to the static file server, and no API handler
\* and no external call is triggered by it.
C18_AllToFileServer ==
    NonApiRequest => (resp.route = RootPattern /\ call = NoCall)

\* C18, amended: such a request is dispatched to the static file server
\* when its path is in clean form, and is otherwise answered by the mux
\* itself with a 301 redirect to the clean path; in both cases no API
\* handler runs and no external call is made.
C18_FileServerOrRedirect ==
    NonApiRequest =>
        /\ call = NoCall
        /\ resp.route \notin ApiRoutes
        /\ cleanPath(reqPath) = reqPath => resp.route = RootPattern
        /\ cleanPath(reqPath) # reqPath =>
              /\ resp.route = "redirect"
              /\ resp.status = 301
              /\ resp.body.text = cleanPath(reqPath)

C18_Witness ==
    /\ reqPath = <<"api", "", "ec2-usage">>
    /\ resp.route = "redirect"
    /\ resp.status = 301
    /\ resp.body.text = PatternPath(Ec2Route)

\* C19: no GetMetricData call has an empty InstanceId dimension: the value
\* sent is the resolved identity, and with an empty identity the handler of
\* /api/ec2-usage returns without a call.
C19_NoBlankDimension ==
    /\ call.api = "GetMetricData" =>
          (call.dim # "" /\ call.dim = instanceID)
    /\ (resp.route = Ec2Route /\ instanceID = "") => call = NoCall

C19_Witness ==
    /\ resp.route = Ec2Route
    /\ cwClient
    /\ instanceID = ""
    /\ call.n = 0
    /\ resp.status # 0

\* what each startup step leaves behind when it succeeded
VaultStepOk  == vaultClient.init /\ vaultClient.token # ""
AwsStepOk    == cwClient /\ metadata.queried /\ metadata.outcome # "readfail"
GithubStepOk == githubClient.init /\ secretRead.n > 0

\* C20: startup runs secret-store client, identity, GitHub client,
\* listener, in this order; a step only runs when the steps before it
\* succeeded, and a request is only served after all of them did.
C20_StartupOrder ==
    /\ (cwClient \/ metadata.queried) => VaultStepOk
    /\ (secretRead.n > 0 \/ githubClient.init \/ githubOwner # ""
          \/ githubRepo # "") => (VaultStepOk /\ AwsStepOk)
    /\ githubClient.init => GithubStepOk
    /\ pc = "initAWS" => (VaultStepOk /\ ~cwClient /\ ~metadata.queried)
    /\ pc = "initGitHub" =>
          (VaultStepOk /\ AwsStepOk /\ secretRead.n = 0 /\ ~githubClient.init)
    /\ pc \in {"listen", "serving"} =>
          (VaultStepOk /\ AwsStepOk /\ GithubStepOk)
    /\ (resp # NoResp \/ call # NoCall \/ reqPath # NoPath) => pc = "serving"

C20_Witness ==
    /\ pc = "exited"
    /\ VaultStepOk
    /\ ~cwClient
    /\ secretRead.n = 0
    /\ ~githubClient.init
    /\ resp = NoResp

\* C21: once the listener is bound the instance identity never changes,
\* and every successful answer of /api/ec2-usage carries, as InstanceID and
\* as the dimension value of its query, the identity the process had before
\* the request.
C21_IdentityImmutable ==
    [][ /\ pc = "serving" => instanceID' = instanceID
        /\ (pc = "serving" /\ Ec2Success') =>
              /\ resp'.status = 200 =>
                    resp'.body.json.v["InstanceID"] = JStr(instanceID)
              /\ call'.dim = instanceID ]_vars

C21_Witness ==
    /\ Ec2Success
    /\ resp.status = 200
    /\ failedBefore
    /\ instanceID = "i-override"
    /\ call.dim = "i-override"
    /\ resp.body.json.v["InstanceID"] = JStr("i-override")

\* C22: the secret store is read once, in initGitHub, by every process
\* that binds the listener; no step taken while serving reads it or
\* replaces the collaborator client, and every collaborator call carries
\* the token read at startup, also after the stored secret was replaced.
C22_SecretReadOnce ==
    [][ /\ secretRead'.n <= 1
        /\ pc' \in {"listen", "serving"} => secretRead'.n = 1
        /\ secretRead'.n # secretRead.n => (pc = "initGitHub")
        /\ pc = "serving" =>
              (secretRead' = secretRead /\ githubClient' = githubClient)
        /\ call'.api = "ListCollaborators" =>
              (call'.token = secretRead'.value
                 /\ call'.token = GithubTokenValue) ]_vars

C22_Witness ==
    /\ rotated
    /\ resp.route = GithubRoute
    /\ call.api = "ListCollaborators"
    /\ call.token = GithubTokenValue
    /\ secretRead.n = 1

\* what the request of a slot is answered with when it is handled alone,
\* with the answer its external call got
HandledAlone(s) ==
    CASE s.route = Ec2Route ->
           ec2UsageHandler(build, cwClient, instanceID,
                           IF s.call = NoCall
                           THEN [err |-> NoErr, series |-> <<>>]
                           ELSE s.out)
      [] s.route = GithubRoute ->
           githubUsersHandler(githubClient, githubOwner, githubRepo,
                              IF s.call = NoCall
                              THEN [err |-> NoErr, users |-> <<>>,
                                    nextPage |-> 0]
                              ELSE s.out)
      [] s.route = FreeTierRoute ->
           [resp |-> freeTierHandler(build), call |-> NoCall]

\* every answered request in flight has the answer of HandledAlone
AnsweredAsAlone ==
    \A i \in Slots :
       inflight[i].stage = "done" =>
          LET s == inflight[i]
              h == HandledAlone(s)
          IN /\ s.status = h.resp.status
             /\ s.header = h.resp.header
             /\ s.body = h.resp.body
             /\ s.aborted = h.resp.aborted
             /\ s.call = h.call

\* C23: with requests to the three API routes handled at the same time, in
\* every interleaving of their steps, no step of a handler changes a
\* package variable, and every request is answered as it would be if it
\* were handled alone with the same answer of its external call.
C23_NoSharedWrites ==
    [][ /\ pc = "serving" => globals' = globals
        /\ AnsweredAsAlone' ]_vars

C23_Witness ==
    /\ inflight[1].stage = "done"
    /\ inflight[1].route = Ec2Route
    /\ inflight[1].status = 200
    /\ inflight[2].stage = "called"
    /\ inflight[2].route = GithubRoute
    /\ AnsweredAsAlone

\* where the first slash of the path of the call is, 0 when it has none
FirstSlash == IndexOf(secretCall.path, "/")

\* the conditions under which getSecret is said to return a value: the
\* client is there, the path is mount/subpath, the store answers and holds
\* the secret of that mount and subpath with a payload, and the key maps
\* to a string in it
ValueConditions ==
    /\ secretCall.vc.init
    /\ FirstSlash > 0
    /\ secretCall.store.answers
    /\ SubSeq(secretCall.path, 1, FirstSlash - 1) = <<"kv">>
    /\ SubSeq(secretCall.path, FirstSlash + 1, Len(secretCall.path))
         = <<"cloudpulse">>
    /\ \/ secretCall.store.content = "string"
            /\ secretCall.key = "github_token"
       \/ secretCall.store.content = "nokey" /\ secretCall.key = "other_key"

\* C24: getSecret returns a value without an error exactly under
\* ValueConditions, and then it is the string stored under the key; in
\* every other case it returns an error with the empty string.
C24_ValueOrError ==
    secretCall.done =>
        /\ ~secretCall.result.failed <=> ValueConditions
        /\ secretCall.result.failed => secretCall.result.value = ""
        /\ ~secretCall.result.failed =>
              secretCall.result.value =
                 (IF secretCall.key = "github_token" THEN GithubTokenValue
                  ELSE "x")

C24_Witness ==
    /\ secretCall.done
    /\ build = "v2"
    /\ secretCall.vc.init
    /\ secretCall.path = <<"kv">>
    /\ secretCall.store = [answers |-> TRUE, content |-> "string"]
    /\ secretCall.key = "github_token"
    /\ secretCall.result.failed
    /\ secretCall.result.value = ""

\* C25: the step that handles a request to /api/free-tier-usage makes no
\* call to the secret store, to CloudWatch or to GitHub, changes no
\* package variable, and answers 200 also with an empty identity.
C25_FreeTierFrame ==
    [][ (resp.route # FreeTierRoute /\ resp'.route = FreeTierRoute) =>
           /\ call' = NoCall
           /\ secretRead' = secretRead
           /\ globals' = globals
           /\ metadata' = metadata
           /\ resp'.status = 200 ]_vars

C25_Witness ==
    /\ resp.route = FreeTierRoute
    /\ resp.status = 200
    /\ call = NoCall
    /\ instanceID = ""
    /\ secretRead.n = 1

\* the bodies of the two "client not initialized" answers
NotInitializedBodies ==
    { <<"{", Q, "error", Q, ":", " ", Q, "AWS client not initialized",
        Q, "}", NL>>,
      <<"{", Q, "error", Q, ":", " ", Q, "GitHub client not initialized",
        Q, "}", NL>> }

\* C26: whenever the listener is bound the three clients are initialized
\* and owner and repo are non-empty, and no answer is one of the two
\* "client not initialized" answers.
C26_ClientsReady ==
    /\ pc = "serving" =>
          /\ vaultClient.init
          /\ cwClient
          /\ githubClient.init
          /\ githubOwner # ""
          /\ githubRepo # ""
    /\ ~ClientFailure
    /\ resp.body.text \notin NotInitializedBodies
    /\ call.api = "ListCollaborators" => (call.owner # "" /\ call.repo # "")

C26_Witness ==
    /\ pc = "serving"
    /\ resp.route = GithubRoute
    /\ call.api = "ListCollaborators"
    /\ call.owner # ""
    /\ call.repo # ""
    /\ instanceID = ""

\* the two shapes a series has in an answer
NumberWithTimestamp(m, id) ==
    /\ id \in DOMAIN m
    /\ m[id].t = "num"
    /\ (id \o "_Timestamp") \in DOMAIN m
    /\ m[id \o "_Timestamp"].t = "str"

NotAvailable(m, id) ==
    /\ id \in DOMAIN m
    /\ m[id] = JStr("N/A")
    /\ (id \o "_Timestamp") \notin DOMAIN m

\* C27: whatever the lengths of the two lists of a series, a successful
\* CloudWatch result is answered, and each of its series has one of the two
\* shapes: a number with its timestamp, or "N/A" without a timestamp.
C27_TwoShapes ==
    Ec2Success =>
        /\ ~resp.aborted
        /\ resp.status = 200
        /\ resp.body.kind = "json"
        /\ \A i \in 1..Len(call.series) :
              LET m == resp.body.json.v
                  id == call.series[i].Id
              IN NumberWithTimestamp(m, id) \/ NotAvailable(m, id)

\* the ids of the series of the CloudWatch result
PresentIds == { call.series[i].Id : i \in 1..Len(call.series) }

\* C28: in a successful answer the metric keys are the ids of the series
\* of the result: a requested id the result lacks has no key and no
\* timestamp key, and InstanceID is always there.
C28_KeysArePresentIds ==
    (Ec2Success /\ resp.status = 200) =>
        LET keys == DOMAIN resp.body.json.v IN
        /\ "InstanceID" \in keys
        /\ keys \cap MetricIds = PresentIds
        /\ \A id \in MetricIds \ PresentIds :
              id \notin keys /\ (id \o "_Timestamp") \notin keys
        /\ keys \subseteq
              {"InstanceID", "message"} \cup PresentIds
                \cup { id \o "_Timestamp" : id \in PresentIds }

C28_Witness ==
    /\ Ec2Success
    /\ resp.status = 200
    /\ PresentIds = {"cpu"}
    /\ DOMAIN resp.body.json.v = {"InstanceID", "cpu", "cpu_Timestamp"}

\* C29: after a metadata query that succeeded the identity is the value
\* the metadata service gave, also when that value is empty and also when
\* EC2_INSTANCE_ID_OVERRIDE is set; the identity is the value of a set
\* override only after a query that failed or had a non-success status.
C29_MetadataFirst ==
    /\ metadata.outcome = "ok" => instanceID = metadata.body
    /\ (metadata.queried /\ env["EC2_INSTANCE_ID_OVERRIDE"] # ""
          /\ instanceID = env["EC2_INSTANCE_ID_OVERRIDE"]) =>
             metadata.outcome \in {"error", "non200"}

C29_Witness ==
    /\ pc = "serving"
    /\ metadata.outcome = "ok"
    /\ metadata.body = ""
    /\ env["EC2_INSTANCE_ID_OVERRIDE"] # ""
    /\ instanceID = ""

====
